---- MODULE Spec2Model ----
(***************************************************************************)
(* A model of apicache (src/app.py): a caching reverse proxy in front of   *)
(* two allow-listed upstream APIs, with an SQLite table as the cache.      *)
(*                                                                         *)
(* Text is modelled at two grains.  A request path and a query string are  *)
(* sequences of atoms (each atom a run of characters that the code never   *)
(* splits), so that str.startswith is the sequence prefix and str.lstrip   *)
(* removes leading "/" atoms.  A response body is a TLA+ string; what      *)
(* json.loads makes of it is tabulated in json_loads.                      *)
(***************************************************************************)
EXTENDS Integers, Sequences, FiniteSets, TLC

VARIABLES
    store,      \* the rows of the SQLite table cache(requestHash, data)
    handlers,   \* one record per handler thread: the locals of proxy()
    nreq,       \* how many requests have been received so far
    fn,         \* the admission checks applied to one input (SpecPolicy)
    op,         \* the last cache store operation and its result (SpecStore)
    written     \* key -> the text last passed to cache_data (SpecStore)

vars == <<store, handlers, nreq, fn, op, written>>

(***************************************************************************)
(* Python values                                                           *)
(***************************************************************************)
None == [py |-> "None"]

\* a local variable that was never assigned
Unbound == [py |-> "unbound"]

Str(s) == [py |-> "str", s |-> s]

\* bool(v) for a value that is None or a str
truthy(v) == v # None /\ v # Str("")

\* s.startswith(prefix)
startswith(s, prefix) ==
    /\ Len(prefix) <= Len(s)
    /\ SubSeq(s, 1, Len(prefix)) = prefix

RECURSIVE lstrip_slash(_)
\* s.lstrip("/")
lstrip_slash(s) ==
    IF s # <<>> /\ Head(s) = "/" THEN lstrip_slash(Tail(s)) ELSE s

(***************************************************************************)
(* Configuration                                                           *)
(***************************************************************************)
ALLOWED_DOMAINS ==
    << <<"openexchangerates.org">>,
       <<"api.twelvedata.com">> >>

CACHEABLE_PATHS ==
    << <<"openexchangerates.org", "/", "api", "/", "historical">>,
       <<"api.twelvedata.com", "/", "eod">> >>

HTTP_OK == 200

RATE_LIMIT_CODE == 429

SERVER_ERROR_LO == 500

SERVER_ERROR_HI == 600

FORBIDDEN == 403

INTERNAL_ERROR == 500

(***************************************************************************)
(* Admission policy, stage A                                               *)
(***************************************************************************)
\* str.lower() on the atoms of the model
lower(atom) ==
    CASE atom = "OpenExchangeRates.org" -> "openexchangerates.org"
      [] OTHER -> atom

\* a domain gate that compares case-insensitively
is_allowed_domain_ignore_case(path) ==
    LET path_clean == lstrip_slash(path)
        path_lower == [i \in 1..Len(path_clean) |-> lower(path_clean[i])]
    IN  \E i \in 1..Len(ALLOWED_DOMAINS) :
            startswith(path_lower, ALLOWED_DOMAINS[i])

is_allowed_domain(path) ==
    LET path_clean == lstrip_slash(path)
    IN  \E i \in 1..Len(ALLOWED_DOMAINS) :
            startswith(path_clean, ALLOWED_DOMAINS[i])

\* a cacheability check that matches the domain instead of the path pattern
is_cacheable_path_by_domain(path) ==
    LET path_clean == lstrip_slash(path)
    IN  \E i \in 1..Len(ALLOWED_DOMAINS) :
            startswith(path_clean, ALLOWED_DOMAINS[i])

is_cacheable_path(path) ==
    LET path_clean == lstrip_slash(path)
    IN  \E i \in 1..Len(CACHEABLE_PATHS) :
            startswith(path_clean, CACHEABLE_PATHS[i])

(***************************************************************************)
(* json.loads on the body texts of the model.  A parsed value is a record  *)
(* with its JSON type t; an object carries its key set and the value of    *)
(* its "code" member, a string whether it has "code" as a substring, a     *)
(* list whether "code" is one of its elements.                             *)
(***************************************************************************)
JInt(n) == [t |-> "int", n |-> n]

JStr(has_code) == [t |-> "str", has_code |-> has_code]

JBool(b) == [t |-> "bool", b |-> b]

JNull == [t |-> "null"]

JList(has_code) == [t |-> "list", has_code |-> has_code]

JDict(keys, code) == [t |-> "dict", keys |-> keys, code |-> code]

JSONDecodeError == [t |-> "JSONDecodeError"]

json_loads(data) ==
    CASE data = "" -> JSONDecodeError
      [] data = "not-json" -> JSONDecodeError
      [] data = "{\"rates\":{\"AUD\":1.5}}" -> JDict({"rates"}, JNull)
      [] data = "{\"close\":\"150.00\"}" -> JDict({"close"}, JNull)
      [] data = "{\"code\":429,\"message\":\"rate limit\"}" ->
            JDict({"code", "message"}, JInt(429))
      [] data = "{\"code\":500,\"message\":\"server error\"}" ->
            JDict({"code", "message"}, JInt(500))
      [] data = "{\"code\":599}" -> JDict({"code"}, JInt(599))
      [] data = "{\"code\":600}" -> JDict({"code"}, JInt(600))
      [] data = "{\"code\":499}" -> JDict({"code"}, JInt(499))
      [] data = "{\"code\":400}" -> JDict({"code"}, JInt(400))
      [] data = "{\"code\":200,\"close\":\"150.00\"}" ->
            JDict({"code", "close"}, JInt(200))
      [] data = "{\"code\":\"429\"}" -> JDict({"code"}, JStr(FALSE))
      [] data = "{\"code\":null}" -> JDict({"code"}, JNull)
      [] data = "{\"code\":true}" -> JDict({"code"}, JBool(TRUE))
      [] data = "{\"code\":[500]}" -> JDict({"code"}, JList(FALSE))
      [] data = "5" -> JInt(5)
      [] data = "null" -> JNull
      [] data = "true" -> JBool(TRUE)
      [] data = "[1,2]" -> JList(FALSE)
      [] data = "[\"code\"]" -> JList(TRUE)
      [] data = "\"ok\"" -> JStr(FALSE)
      [] data = "\"barcode\"" -> JStr(TRUE)

\* does `"code" in json_data` raise TypeError (the operand is not a container)
contains_raises(json_data) == json_data.t \in {"int", "bool", "null"}

\* "code" in json_data, for a container
contains_code(json_data) ==
    CASE json_data.t = "dict" -> "code" \in json_data.keys
      [] json_data.t = "list" -> json_data.has_code
      [] json_data.t = "str" -> json_data.has_code

\* does json_data["code"] raise TypeError (a str or list indexed by a str)
getitem_raises(json_data) == json_data.t \in {"str", "list"}

\* does `code >= 500` raise TypeError (the operand is not a number)
compare_raises(code) == code.t \notin {"int", "bool"}

\* the number a JSON int or bool compares as
as_number(code) == IF code.t = "bool" THEN (IF code.b THEN 1 ELSE 0) ELSE code.n

\* code == 429 or (code >= 500 and code < 600), for a number
is_error_code(code) ==
    \/ as_number(code) = RATE_LIMIT_CODE
    \/ (as_number(code) >= SERVER_ERROR_LO /\ as_number(code) < SERVER_ERROR_HI)

(***************************************************************************)
(* Admission policy, stage B.  The result is "True", "False", or           *)
(* "TypeError" when the evaluation raises.                                 *)
(***************************************************************************)
twelvedata_gate(data) ==
    LET json_data == json_loads(data)
    IN  IF json_data = JSONDecodeError THEN "True"
        ELSE IF contains_raises(json_data) THEN "TypeError"
        ELSE IF ~contains_code(json_data) THEN "True"
        ELSE IF getitem_raises(json_data) THEN "TypeError"
        ELSE LET code == json_data.code
             IN  IF compare_raises(code) THEN "TypeError"
                 ELSE IF is_error_code(code) THEN "False"
                 ELSE "True"

\* a response gate without the status check
should_cache_response_any_status(path, status_code, data) ==
    IF ~is_cacheable_path(path) THEN "False"
    ELSE IF startswith(lstrip_slash(path), <<"openexchangerates.org">>) THEN "True"
    ELSE IF startswith(lstrip_slash(path), <<"api.twelvedata.com">>)
         THEN twelvedata_gate(data)
    ELSE "False"

should_cache_response(path, status_code, data) ==
    IF ~is_cacheable_path(path) THEN "False"
    ELSE IF status_code # HTTP_OK THEN "False"
    ELSE IF startswith(lstrip_slash(path), <<"openexchangerates.org">>) THEN "True"
    ELSE IF startswith(lstrip_slash(path), <<"api.twelvedata.com">>)
         THEN twelvedata_gate(data)
    ELSE "False"

(***************************************************************************)
(* Cache store: the table cache(requestHash TEXT PRIMARY KEY, data TEXT).  *)
(***************************************************************************)
Row(request_hash, data) == [requestHash |-> request_hash, data |-> data]

\* SELECT data FROM cache WHERE requestHash = ?  (the matching rows)
select_data(rows, request_hash) == {r \in rows : r.requestHash = request_hash}

\* result[0] if result else None, for result = cursor.fetchone()
get_cached_data(rows, request_hash) ==
    LET result == select_data(rows, request_hash)
    IN  IF result # {} THEN Str((CHOOSE r \in result : TRUE).data) ELSE None

\* INSERT into a table without the primary key: the old row stays
cache_data_insert(rows, request_hash, data) ==
    rows \cup {Row(request_hash, data)}

\* INSERT OR IGNORE: an existing row wins
cache_data_insert_or_ignore(rows, request_hash, data) ==
    IF select_data(rows, request_hash) # {} THEN rows
    ELSE rows \cup {Row(request_hash, data)}

\* INSERT OR REPLACE INTO cache (requestHash, data) VALUES (?, ?)
cache_data(rows, request_hash, data) ==
    {r \in rows : r.requestHash # request_hash} \cup {Row(request_hash, data)}

(***************************************************************************)
(* Request fingerprint and outbound target                                 *)
(***************************************************************************)
RECURSIVE to_dict_from(_, _)
to_dict_from(args, seen) ==
    IF args = <<>> THEN <<>>
    ELSE IF Head(args)[1] \in seen THEN to_dict_from(Tail(args), seen)
    ELSE <<Head(args)>> \o to_dict_from(Tail(args), seen \cup {Head(args)[1]})

\* query parameters put in canonical order, sorted by name
to_dict_sorted(args) ==
    LET name_rank(name) ==
            CASE name = "a" -> 1
              [] name = "app_id" -> 2
              [] name = "b" -> 3
              [] name = "base" -> 4
              [] name = "flag" -> 5
              [] name = "q" -> 6
              [] name = "symbol" -> 7
        RECURSIVE sort_by_name(_)
        sort_by_name(params) ==
            IF params = <<>> THEN <<>>
            ELSE LET i == CHOOSE i \in 1..Len(params) :
                            \A j \in 1..Len(params) :
                                name_rank(params[i][1]) <= name_rank(params[j][1])
                 IN  <<params[i]>> \o
                     sort_by_name(SubSeq(params, 1, i - 1)
                                  \o SubSeq(params, i + 1, Len(params)))
    IN  sort_by_name(to_dict_from(args, {}))

\* request.args.to_dict(): the first value of each name, in order of first
\* appearance
to_dict(args) == to_dict_from(args, {})

\* urllib.parse.quote_plus on the atoms of the model
quote_plus(s) ==
    CASE s = "a b" -> "a+b"
      [] s = "x/y" -> "x%2Fy"
      [] OTHER -> s

RECURSIVE urlencode(_)
\* urllib.parse.urlencode(query_params)
urlencode(query_params) ==
    IF query_params = <<>> THEN <<>>
    ELSE <<quote_plus(Head(query_params)[1]), "=", quote_plus(Head(query_params)[2])>>
         \o (IF Tail(query_params) = <<>> THEN <<>>
             ELSE <<"&">> \o urlencode(Tail(query_params)))

\* a target that always carries the "?" separator
make_full_path_always_separator(path, query_string) ==
    <<"/">> \o path \o <<"?">> \o query_string

\* f"/{path}?{query_string}" if query_string else f"/{path}"
make_full_path(path, query_string) ==
    IF query_string # <<>> THEN <<"/">> \o path \o <<"?">> \o query_string
    ELSE <<"/">> \o path

\* f"https:/{full_path}"
make_upstream_url(full_path) == <<"https:/">> \o full_path

\* hashlib.sha256(full_path.encode()).hexdigest(), taken to be collision-free:
\* the digest is represented by the text it is the digest of (a non-empty
\* str, so truthy)
sha256_hexdigest(full_path) == [py |-> "hexdigest", of |-> full_path]

(***************************************************************************)
(* Bounds and inputs                                                       *)
(***************************************************************************)
MaxRequests == 3

\* two handler threads run concurrently
Handlers == {1, 2}

HISTORICAL == <<"openexchangerates.org", "/", "api", "/", "historical", "/", "2024-01-01.json">>

LATEST == <<"openexchangerates.org", "/", "api", "/", "latest.json">>

EOD == <<"api.twelvedata.com", "/", "eod">>

\* the requests the proxy receives: the path Flask's <path:path> converter
\* hands over (no leading "/") and the query parameters in arrival order
Requests ==
    { [path |-> HISTORICAL, args |-> << <<"app_id", "test">>, <<"base", "USD">> >>],
      [path |-> HISTORICAL, args |-> << <<"base", "USD">>, <<"app_id", "test">> >>],
      [path |-> EOD, args |-> << <<"symbol", "AAPL">> >>],
      [path |-> LATEST, args |-> << <<"app_id", "test">> >>],
      [path |-> <<"evil.com", "/", "api", "/", "data">>, args |-> <<>>],
      [path |-> <<"OpenExchangeRates.org", "/", "api", "/", "historical">>, args |-> <<>>],
      [path |-> <<"openexchangerates.org", ".evil.com", "/", "api">>, args |-> <<>>] }

RATES == "{\"rates\":{\"AUD\":1.5}}"

\* what urlopen returns without raising: a 2xx status and a body
UpstreamResponses ==
    { [status_code |-> 200, data |-> RATES],
      [status_code |-> 200, data |-> ""],
      [status_code |-> 200, data |-> "{\"code\":429,\"message\":\"rate limit\"}"],
      [status_code |-> 200, data |-> "5"],
      [status_code |-> 201, data |-> RATES] }

\* the statuses urlopen raises HTTPError for
HTTPErrorCodes == {404}

(***************************************************************************)
(* The proxy handler                                                       *)
(***************************************************************************)
NoResponse == [status |-> 0, body |-> "", xcache |-> ""]

\* the JSON text of {"error": message}; an exception's message is str(e)
jsonify_error(message) ==
    CASE message = "Domain not allowed" -> "{\"error\":\"Domain not allowed\"}"
      [] message = "HTTPError" -> "{\"error\":\"<str(HTTPError)>\"}"
      [] message = "URLError" -> "{\"error\":\"<str(URLError)>\"}"
      [] message = "TypeError" -> "{\"error\":\"<str(TypeError)>\"}"

\* jsonify({"error": message}), status   (no X-Cache header)
error_response(message, status) ==
    [status |-> status, body |-> jsonify_error(message), xcache |-> ""]

IdleHandler ==
    [ pc |-> "IDLE", path |-> <<>>, args |-> <<>>, full_path |-> <<>>,
      upstream_url |-> <<>>, request_hash |-> None, cached_data |-> Unbound,
      status_code |-> 0, data |-> "", response |-> NoResponse,
      upstream_calls |-> 0, cache_reads |-> 0, cache_writes |-> 0,
      exc |-> "", exc_code |-> 0 ]

Terminal == {"REJECTED", "CACHE_HIT", "STORED", "NOT_STORED", "UPSTREAM_ERROR"}

HarnessIdle ==
    /\ fn = [phase |-> "off"]
    /\ op = [name |-> "off"]
    /\ written = <<>>

Init ==
    /\ store = {}
    /\ handlers = [w \in Handlers |-> IdleHandler]
    /\ nreq = 0
    /\ HarnessIdle

\* Flask dispatches a request to proxy(path)
Receive(w, r) ==
    /\ handlers[w].pc = "IDLE"
    /\ nreq < MaxRequests
    /\ nreq' = nreq + 1
    /\ handlers' = [handlers EXCEPT ![w] =
            [IdleHandler EXCEPT !.pc = "RECEIVED", !.path = r.path, !.args = r.args]]
    /\ UNCHANGED <<store, fn, op, written>>

\* the domain gate, and the outbound target and fingerprint
DomainCheck(w) ==
    LET h == handlers[w]
        query_params == to_dict(h.args)
        query_string == urlencode(query_params)
        full_path == make_full_path(h.path, query_string)
        upstream_url == make_upstream_url(full_path)
        request_hash == IF is_cacheable_path(h.path)
                        THEN sha256_hexdigest(full_path) ELSE None
    IN  /\ h.pc = "RECEIVED"
        /\ IF ~is_allowed_domain(h.path)
           THEN handlers' = [handlers EXCEPT ![w] =
                    [h EXCEPT !.pc = "REJECTED",
                              !.response = error_response("Domain not allowed", FORBIDDEN)]]
           ELSE handlers' = [handlers EXCEPT ![w] =
                    [h EXCEPT !.pc = IF request_hash # None
                                     THEN "DOMAIN_CHECKED" ELSE "CACHE_MISS",
                              !.full_path = full_path,
                              !.upstream_url = upstream_url,
                              !.request_hash = request_hash]]
        /\ UNCHANGED <<store, nreq, fn, op, written>>

\* get_cached_data returns; a truthy value is served as a hit
CacheLookup(w) ==
    LET h == handlers[w]
        cached_data == get_cached_data(store, h.request_hash)
    IN  /\ h.pc = "DOMAIN_CHECKED"
        /\ handlers' = [handlers EXCEPT ![w] =
                IF truthy(cached_data)
                THEN [h EXCEPT !.pc = "CACHE_HIT",
                               !.cached_data = cached_data,
                               !.cache_reads = @ + 1,
                               !.response = [status |-> HTTP_OK, body |-> cached_data.s,
                                             xcache |-> "HIT"]]
                ELSE [h EXCEPT !.pc = "CACHE_MISS",
                               !.cached_data = cached_data,
                               !.cache_reads = @ + 1]]
        /\ UNCHANGED <<store, nreq, fn, op, written>>

\* a failed lookup that never comes back to the handler
CacheLookupError_blocks(w) ==
    LET h == handlers[w]
    IN  /\ h.pc = "DOMAIN_CHECKED"
        /\ truthy(h.request_hash)
        /\ handlers' = [handlers EXCEPT ![w] =
                [h EXCEPT !.pc = "BLOCKED", !.cache_reads = @ + 1]]
        /\ UNCHANGED <<store, nreq, fn, op, written>>

\* get_cached_data raises (sqlite3.Error); the error is logged
CacheLookupError(w) ==
    LET h == handlers[w]
    IN  /\ h.pc = "DOMAIN_CHECKED"
        /\ handlers' = [handlers EXCEPT ![w] =
                [h EXCEPT !.pc = "CACHE_MISS", !.cache_reads = @ + 1]]
        /\ UNCHANGED <<store, nreq, fn, op, written>>

\* urlopen returns a response with this status and body
UpstreamReturn(w, status_code, data) ==
    LET h == handlers[w]
    IN  /\ h.pc = "CACHE_MISS"
        /\ handlers' = [handlers EXCEPT ![w] =
                [h EXCEPT !.pc = "UPSTREAM_CALLED",
                          !.status_code = status_code,
                          !.data = data,
                          !.upstream_calls = @ + 1]]
        /\ UNCHANGED <<store, nreq, fn, op, written>>

\* an HTTPError answered with the generic status instead of its own
UpstreamHTTPError_generic_status(w, code) ==
    LET h == handlers[w]
    IN  /\ h.pc = "CACHE_MISS"
        /\ handlers' = [handlers EXCEPT ![w] =
                [h EXCEPT !.pc = "UPSTREAM_ERROR",
                          !.upstream_calls = @ + 1,
                          !.exc = "HTTPError",
                          !.exc_code = code,
                          !.response = error_response("HTTPError", INTERNAL_ERROR)]]
        /\ UNCHANGED <<store, nreq, fn, op, written>>

\* urlopen raises urllib.error.HTTPError with this code
UpstreamHTTPError(w, code) ==
    LET h == handlers[w]
    IN  /\ h.pc = "CACHE_MISS"
        /\ handlers' = [handlers EXCEPT ![w] =
                [h EXCEPT !.pc = "UPSTREAM_ERROR",
                          !.upstream_calls = @ + 1,
                          !.exc = "HTTPError",
                          !.exc_code = code,
                          !.response = error_response("HTTPError", code)]]
        /\ UNCHANGED <<store, nreq, fn, op, written>>

\* urlopen raises any other exception
UpstreamFailure(w) ==
    LET h == handlers[w]
    IN  /\ h.pc = "CACHE_MISS"
        /\ handlers' = [handlers EXCEPT ![w] =
                [h EXCEPT !.pc = "UPSTREAM_ERROR",
                          !.upstream_calls = @ + 1,
                          !.exc = "URLError",
                          !.response = error_response("URLError", INTERNAL_ERROR)]]
        /\ UNCHANGED <<store, nreq, fn, op, written>>

\* the upstream response as returned to the client
miss_response(h) == [status |-> h.status_code, body |-> h.data, xcache |-> "MISS"]

\* should_cache_response raises inside the try block: except Exception
GateRaises(w) ==
    LET h == handlers[w]
    IN  /\ h.pc = "UPSTREAM_CALLED"
        /\ should_cache_response(h.path, h.status_code, h.data) = "TypeError"
        /\ handlers' = [handlers EXCEPT ![w] =
                [h EXCEPT !.pc = "UPSTREAM_ERROR",
                          !.exc = "TypeError",
                          !.response = error_response("TypeError", INTERNAL_ERROR)]]
        /\ UNCHANGED <<store, nreq, fn, op, written>>

\* a write that does not wait for the gate's verdict
Store_without_gate(w) ==
    LET h == handlers[w]
    IN  /\ h.pc = "UPSTREAM_CALLED"
        /\ should_cache_response(h.path, h.status_code, h.data) \in {"True", "False"}
        /\ truthy(h.request_hash)
        /\ store' = cache_data(store, h.request_hash, h.data)
        /\ handlers' = [handlers EXCEPT ![w] =
                [h EXCEPT !.pc = "STORED",
                          !.cache_writes = @ + 1,
                          !.response = miss_response(h)]]
        /\ UNCHANGED <<nreq, fn, op, written>>

\* the response is admitted and cache_data returns
Store(w) ==
    LET h == handlers[w]
    IN  /\ h.pc = "UPSTREAM_CALLED"
        /\ should_cache_response(h.path, h.status_code, h.data) = "True"
        /\ truthy(h.request_hash)
        /\ store' = cache_data(store, h.request_hash, h.data)
        /\ handlers' = [handlers EXCEPT ![w] =
                [h EXCEPT !.pc = "STORED",
                          !.cache_writes = @ + 1,
                          !.response = miss_response(h)]]
        /\ UNCHANGED <<nreq, fn, op, written>>

\* the response is admitted and cache_data raises; the error is logged
StoreError(w) ==
    LET h == handlers[w]
    IN  /\ h.pc = "UPSTREAM_CALLED"
        /\ should_cache_response(h.path, h.status_code, h.data) = "True"
        /\ truthy(h.request_hash)
        /\ handlers' = [handlers EXCEPT ![w] =
                [h EXCEPT !.pc = "NOT_STORED",
                          !.cache_writes = @ + 1,
                          !.response = miss_response(h)]]
        /\ UNCHANGED <<store, nreq, fn, op, written>>

\* the response is not admitted, or the path has no fingerprint
NoStore(w) ==
    LET h == handlers[w]
    IN  /\ h.pc = "UPSTREAM_CALLED"
        /\ \/ should_cache_response(h.path, h.status_code, h.data) = "False"
           \/ /\ should_cache_response(h.path, h.status_code, h.data) = "True"
              /\ ~truthy(h.request_hash)
        /\ handlers' = [handlers EXCEPT ![w] =
                [h EXCEPT !.pc = "NOT_STORED", !.response = miss_response(h)]]
        /\ UNCHANGED <<store, nreq, fn, op, written>>

\* the response has been sent; the thread takes the next request
Retire(w) ==
    /\ handlers[w].pc \in Terminal
    /\ handlers' = [handlers EXCEPT ![w] = IdleHandler]
    /\ UNCHANGED <<store, nreq, fn, op, written>>

Next ==
    \E w \in Handlers :
        \/ \E r \in Requests : Receive(w, r)
        \/ DomainCheck(w)
        \/ CacheLookup(w)
        \/ CacheLookupError(w)
        \/ \E u \in UpstreamResponses : UpstreamReturn(w, u.status_code, u.data)
        \/ \E code \in HTTPErrorCodes : UpstreamHTTPError(w, code)
        \/ UpstreamFailure(w)
        \/ GateRaises(w)
        \/ Store(w)
        \/ StoreError(w)
        \/ NoStore(w)
        \/ Retire(w)

Spec == Init /\ [][Next]_vars

\* the steps of the handler of one received request, up to its response
HandlerStep(w) ==
    \/ DomainCheck(w)
    \/ CacheLookup(w)
    \/ CacheLookupError(w)
    \/ \E u \in UpstreamResponses : UpstreamReturn(w, u.status_code, u.data)
    \/ \E code \in HTTPErrorCodes : UpstreamHTTPError(w, code)
    \/ UpstreamFailure(w)
    \/ GateRaises(w)
    \/ Store(w)
    \/ StoreError(w)
    \/ NoStore(w)

\* requests received in a run of the fair specification
MaxLiveRequests == 2

NextLive ==
    \E w \in Handlers :
        \/ \E r \in Requests : nreq < MaxLiveRequests /\ Receive(w, r)
        \/ HandlerStep(w)
        \/ Retire(w)

\* every handler that can take a step eventually takes one: the server keeps
\* running each request's thread, and the upstream call and each store
\* operation eventually return or raise
SpecLive == Init /\ [][NextLive]_vars /\ \A w \in Handlers : WF_vars(HandlerStep(w))

(***************************************************************************)
(* Sequential runs with the store available: a request is received only    *)
(* when no other is in flight, and no store operation raises.              *)
(***************************************************************************)
ReceiveAlone(w, r) ==
    /\ \A v \in Handlers : handlers[v].pc = "IDLE"
    /\ Receive(w, r)

NextSeq ==
    \E w \in Handlers :
        \/ \E r \in Requests : ReceiveAlone(w, r)
        \/ DomainCheck(w)
        \/ CacheLookup(w)
        \/ \E u \in UpstreamResponses : UpstreamReturn(w, u.status_code, u.data)
        \/ \E code \in HTTPErrorCodes : UpstreamHTTPError(w, code)
        \/ UpstreamFailure(w)
        \/ GateRaises(w)
        \/ Store(w)
        \/ NoStore(w)
        \/ Retire(w)

SpecSeq == Init /\ [][NextSeq]_vars

(***************************************************************************)
(* The admission checks as pure functions: an input is drawn, the three    *)
(* checks are applied to it.                                               *)
(***************************************************************************)
PolicyPaths ==
    { <<"/">> \o HISTORICAL,
      HISTORICAL,
      <<"/", "/">> \o EOD,
      <<"/">> \o EOD,
      <<"/">> \o LATEST,
      <<"/", "openexchangerates.org", "/", "api", "/", "historical", "_x">>,
      <<"/", "api.twelvedata.com", "/", "eod", "_bulk">>,
      <<"/", "api.twelvedata.com", "/", "other">>,
      <<"/", "api.twelvedata.com">>,
      <<"/", "evil.com", "/", "api">>,
      <<"/", "OpenExchangeRates.org", "/", "api", "/", "historical">>,
      <<"/", "openexchangerates.org", ".evil.com", "/", "api", "/", "historical">>,
      <<"/", "evil.com", "/", "openexchangerates.org", "/", "api", "/", "historical">>,
      <<"/">>,
      <<>> }

PolicyStatuses == {200, 201, 204, 301, 404, 429, 500}

PolicyBodies ==
    { "", "not-json", RATES, "{\"close\":\"150.00\"}",
      "{\"code\":429,\"message\":\"rate limit\"}",
      "{\"code\":500,\"message\":\"server error\"}",
      "{\"code\":599}", "{\"code\":600}", "{\"code\":499}", "{\"code\":400}",
      "{\"code\":200,\"close\":\"150.00\"}",
      "{\"code\":\"429\"}", "{\"code\":null}", "{\"code\":true}", "{\"code\":[500]}",
      "5", "null", "true", "[1,2]", "[\"code\"]", "\"ok\"", "\"barcode\"" }

InitPolicy ==
    /\ store = {}
    /\ handlers = [w \in Handlers |-> IdleHandler]
    /\ nreq = 0
    /\ op = [name |-> "off"]
    /\ written = <<>>
    /\ \E path \in PolicyPaths, status_code \in PolicyStatuses, data \in PolicyBodies :
            fn = [phase |-> "input", path |-> path, status_code |-> status_code,
                  data |-> data, allowed |-> FALSE, cacheable |-> FALSE,
                  should_cache |-> ""]

ApplyChecks ==
    /\ fn.phase = "input"
    /\ fn' = [fn EXCEPT !.phase = "applied",
                        !.allowed = is_allowed_domain(fn.path),
                        !.cacheable = is_cacheable_path(fn.path),
                        !.should_cache =
                            should_cache_response(fn.path, fn.status_code, fn.data)]
    /\ UNCHANGED <<store, handlers, nreq, op, written>>

SpecPolicy == InitPolicy /\ [][ApplyChecks]_vars

(***************************************************************************)
(* The cache store on its own: cache_data and get_cached_data in any       *)
(* order, against the record of what was written.                          *)
(***************************************************************************)
MaxPuts == 2

StoreKeys ==
    { sha256_hexdigest(make_full_path(EOD, <<>>)),
      sha256_hexdigest(make_full_path(HISTORICAL, <<"app_id", "=", "test">>)),
      sha256_hexdigest(make_full_path(HISTORICAL, <<"app_id", "=", "prod">>)) }

StoreTexts == {"", RATES, "{\"updated\":\"data\"}"}

InitStore ==
    /\ store = {}
    /\ handlers = [w \in Handlers |-> IdleHandler]
    /\ nreq = 0
    /\ fn = [phase |-> "off"]
    /\ op = [name |-> "init_db"]
    /\ written = [k \in StoreKeys |-> <<>>]

StorePut(k, v) ==
    /\ Len(written[k]) < MaxPuts
    /\ store' = cache_data(store, k, v)
    /\ written' = [written EXCEPT ![k] = Append(@, v)]
    /\ op' = [name |-> "cache_data", key |-> k, result |-> None]
    /\ UNCHANGED <<handlers, nreq, fn>>

StoreGet(k) ==
    /\ op' = [name |-> "get_cached_data", key |-> k,
              result |-> get_cached_data(store, k)]
    /\ UNCHANGED <<store, handlers, nreq, fn, written>>

NextStore ==
    \E k \in StoreKeys :
        \/ \E v \in StoreTexts : StorePut(k, v)
        \/ StoreGet(k)

SpecStore == InitStore /\ [][NextStore]_vars

(***************************************************************************)
(* The outbound target on its own: a request target is drawn (path, then   *)
(* "?" and a query string if it has one), Flask splits and parses it, and  *)
(* proxy rebuilds the upstream URL and the fingerprint from the result.    *)
(***************************************************************************)
RECURSIVE TakeUntil(_, _)
\* the atoms of seq before the first one in stops
TakeUntil(seq, stops) ==
    IF seq = <<>> \/ Head(seq) \in stops THEN <<>>
    ELSE <<Head(seq)>> \o TakeUntil(Tail(seq), stops)

RECURSIVE DropThrough(_, _)
\* the atoms of seq after the first one in stops (none if there is none)
DropThrough(seq, stops) ==
    IF seq = <<>> THEN <<>>
    ELSE IF Head(seq) \in stops THEN Tail(seq)
    ELSE DropThrough(Tail(seq), stops)

\* urllib.parse.unquote_plus on the atoms of the model
unquote_plus(s) ==
    CASE s = "a+b" -> "a b"
      [] s = "a%20b" -> "a b"
      [] s = "x%2Fy" -> "x/y"
      [] OTHER -> s

\* one "name=value" field of a query string as a (name, value) pair
parse_field(field) ==
    <<unquote_plus(Head(field)),
      IF Len(field) >= 3 THEN unquote_plus(field[3]) ELSE "">>

RECURSIVE request_args(_)
\* request.args: the (name, value) pairs of the query string in order, every
\* occurrence kept, empty fields skipped
request_args(query) ==
    IF query = <<>> THEN <<>>
    ELSE LET field == TakeUntil(query, {"&"})
             rest == DropThrough(query, {"&"})
         IN  IF field = <<>> THEN request_args(rest)
             ELSE <<parse_field(field)>> \o request_args(rest)

TargetPaths ==
    { HISTORICAL, EOD, LATEST,
      <<"api.twelvedata.com", "/", "eod", "_bulk">>,
      <<"openexchangerates.org", ".evil.com", "/", "api">>,
      <<"evil.com", "/", "api", "/", "data">> }

TargetQueries ==
    { <<>>,
      <<"app_id", "=", "test", "&", "base", "=", "USD">>,
      <<"base", "=", "USD", "&", "app_id", "=", "test">>,
      <<"symbol", "=", "AAPL">>,
      <<"a", "=", "1", "&", "a", "=", "2">>,
      <<"a", "=", "1", "&", "b", "=", "2", "&", "a", "=", "3">>,
      <<"q", "=", "a+b">>,
      <<"q", "=", "a%20b">>,
      <<"q", "=", "x%2Fy">>,
      <<"flag">>,
      <<"&">> }

\* the request targets: a path alone, or a path, "?" and a query string
Targets ==
    TargetPaths \cup {p \o <<"?">> \o q : p \in TargetPaths, q \in TargetQueries}

InitTarget ==
    /\ store = {}
    /\ handlers = [w \in Handlers |-> IdleHandler]
    /\ nreq = 0
    /\ op = [name |-> "off"]
    /\ written = <<>>
    /\ \E target \in Targets :
            fn = [phase |-> "target", target |-> target, path |-> <<>>,
                  args |-> <<>>, allowed |-> FALSE, full_path |-> <<>>,
                  upstream_url |-> <<>>, request_hash |-> None]

\* proxy up to the cache lookup, for the request target drawn
BuildTarget ==
    LET path == TakeUntil(fn.target, {"?"})
        args == request_args(DropThrough(fn.target, {"?"}))
        query_params == to_dict(args)
        query_string == urlencode(query_params)
        full_path == make_full_path(path, query_string)
    IN  /\ fn.phase = "target"
        /\ fn' = IF ~is_allowed_domain(path)
                 THEN [fn EXCEPT !.phase = "built", !.path = path, !.args = args]
                 ELSE [fn EXCEPT !.phase = "built", !.path = path, !.args = args,
                                 !.allowed = TRUE,
                                 !.full_path = full_path,
                                 !.upstream_url = make_upstream_url(full_path),
                                 !.request_hash =
                                    IF is_cacheable_path(path)
                                    THEN sha256_hexdigest(full_path) ELSE None]
        /\ UNCHANGED <<store, handlers, nreq, op, written>>

SpecTarget == InitTarget /\ [][BuildTarget]_vars

(***************************************************************************)
(* Properties                                                              *)
(***************************************************************************)
HitResponse(body) == [status |-> 200, body |-> body, xcache |-> "HIT"]

MissResponse(status, body) == [status |-> status, body |-> body, xcache |-> "MISS"]

\* the handler has got past the domain gate or was rejected by it
Checked(h) == h.pc \notin {"IDLE", "RECEIVED"}

\* urlopen returned a response to this handler
UpstreamReturned(h) == h.status_code # 0

\* the path, leading slashes apart, begins with an allow-list entry
BeginsWithAllowedDomain(path) ==
    LET p == lstrip_slash(path)
    IN  p # <<>> /\ p[1] \in {"openexchangerates.org", "api.twelvedata.com"}

HistoricalPath(path) ==
    startswith(lstrip_slash(path),
               <<"openexchangerates.org", "/", "api", "/", "historical">>)

EodPath(path) ==
    startswith(lstrip_slash(path), <<"api.twelvedata.com", "/", "eod">>)

MatchesCacheablePrefix(path) == HistoricalPath(path) \/ EodPath(path)

\* C1: when the cache read of a request succeeds and finds an entry, then
\* whatever the stored body is the response is that body with status 200 and
\* X-Cache: HIT, and the upstream is never called for that request.
C1_HitServesStoredBody ==
    \A w \in Handlers :
        LET h == handlers[w]
        IN  h.cached_data.py = "str" =>
                /\ h.pc = "CACHE_HIT"
                /\ h.response = HitResponse(h.cached_data.s)
                /\ h.upstream_calls = 0

\* C2: in a sequential run with the store available, a request whose target
\* already has an entry (written for an earlier request's admitted response)
\* is answered with X-Cache: HIT and that body, without an upstream call.
C2_RepeatServedLocally ==
    [][\A w \in Handlers :
        LET h == handlers[w]
            after == handlers'[w]
            rows == select_data(store, h.request_hash)
        IN  (h.pc = "DOMAIN_CHECKED" /\ after # h /\ rows # {}) =>
                /\ after.pc = "CACHE_HIT"
                /\ \E r \in rows : after.response = HitResponse(r.data)
                /\ after.upstream_calls = 0]_vars

\* the case of C3: a cacheable request has missed (the read found no entry)
\* and the upstream returned 200 with a body the policy admits
MissAdmitted(h) ==
    /\ h.pc = "UPSTREAM_CALLED"
    /\ h.request_hash # None
    /\ h.cached_data = None
    /\ h.status_code = 200
    /\ should_cache_response(h.path, h.status_code, h.data) = "True"

MissStored(h, after, rows) ==
    /\ after.response = MissResponse(200, h.data)
    /\ after.upstream_calls = 1
    /\ get_cached_data(rows, h.request_hash) = Str(h.data)

\* C3 as stated: after a miss whose upstream response (200, b) is admitted,
\* the response is 200, b, X-Cache: MISS, the upstream was called once, and
\* get(fingerprint) returns b.
C3_MissAndStore_AsStated ==
    [][\A w \in Handlers :
        LET h == handlers[w]
            after == handlers'[w]
        IN  (MissAdmitted(h) /\ after # h) => MissStored(h, after, store')]_vars

\* cache_data was called for this step and raised
WriteRaised(h, after) ==
    after.pc = "NOT_STORED" /\ after.cache_writes = h.cache_writes + 1

\* C3 (amended): after a miss whose upstream response (200, b) is admitted,
\* the response is 200, b, X-Cache: MISS and the upstream was called once;
\* and unless the store write raises, get(fingerprint) then returns b.
C3_MissAndStore ==
    [][\A w \in Handlers :
        LET h == handlers[w]
            after == handlers'[w]
        IN  (MissAdmitted(h) /\ after # h) =>
                /\ after.response = MissResponse(200, h.data)
                /\ after.upstream_calls = 1
                /\ ~WriteRaised(h, after) => MissStored(h, after, store')]_vars

C3_Witness ==
    \E w \in Handlers :
        LET h == handlers[w]
        IN  /\ h.pc = "STORED"
            /\ h.cached_data = None
            /\ h.upstream_calls = 1
            /\ h.response = MissResponse(200, RATES)
            /\ get_cached_data(store, h.request_hash) = Str(RATES)

\* C4: a request whose path does not begin with an allow-list entry (case
\* matters) fails is_allowed_domain and is answered 403 with the body
\* {"error": "Domain not allowed"}, with no upstream call and no cache read
\* or write.
C4_DomainRejection ==
    \A w \in Handlers :
        LET h == handlers[w]
        IN  (Checked(h) /\ ~BeginsWithAllowedDomain(h.path)) =>
                /\ ~is_allowed_domain(h.path)
                /\ h.pc = "REJECTED"
                /\ h.response = [status |-> 403,
                                 body |-> "{\"error\":\"Domain not allowed\"}",
                                 xcache |-> ""]
                /\ h.upstream_calls = 0
                /\ h.cache_reads = 0
                /\ h.cache_writes = 0

C4_Witness ==
    \E w \in Handlers :
        /\ handlers[w].pc = "REJECTED"
        /\ handlers[w].path[1] = "OpenExchangeRates.org"
        /\ handlers[w].response.status = 403

\* C5: whenever the upstream returned a response (s, b) to a request, the
\* client receives exactly s, b and X-Cache: MISS, whatever the body and the
\* admission decision.
C5_UpstreamPassThrough ==
    \A w \in Handlers :
        LET h == handlers[w]
        IN  (h.pc \in Terminal /\ UpstreamReturned(h)) =>
                h.response = MissResponse(h.status_code, h.data)

\* C6: the three admission checks return a boolean and never raise, for
\* every path, status code and body.
C6_ChecksTotal ==
    fn.phase = "applied" =>
        /\ fn.allowed \in BOOLEAN
        /\ fn.cacheable \in BOOLEAN
        /\ fn.should_cache \in {"True", "False"}

\* the body parses to an object whose "code" is 429 or in 500..599
CarriesErrorCode(data) ==
    LET j == json_loads(data)
    IN  /\ j.t = "dict"
        /\ "code" \in j.keys
        /\ j.code.t = "int"
        /\ (j.code.n = 429 \/ j.code.n \in 500..599)

\* C7: for a cacheable eod path and status 200, should_cache_response
\* rejects exactly when the body parses to a payload whose "code" is 429 or
\* in 500..599, and admits in every other case.
C7_EodGate ==
    (fn.phase = "applied" /\ EodPath(fn.path) /\ fn.status_code = 200) =>
        fn.should_cache = (IF CarriesErrorCode(fn.data) THEN "False" ELSE "True")

\* C8: should_cache_response is false for every path that is not cacheable
\* and for every status other than 200, and true for a cacheable historical
\* path with status 200 whatever the body.
C8_StatusAndHistoricalGate ==
    fn.phase = "applied" =>
        /\ ~MatchesCacheablePrefix(fn.path) => fn.should_cache = "False"
        /\ fn.status_code # 200 => fn.should_cache = "False"
        /\ (HistoricalPath(fn.path) /\ fn.status_code = 200) => fn.should_cache = "True"

C8_Witness ==
    /\ fn.phase = "applied"
    /\ HistoricalPath(fn.path)
    /\ fn.status_code = 200
    /\ fn.data = "5"
    /\ fn.should_cache = "True"

\* C9: a request to an allowed domain whose path matches no cacheable prefix
\* gets no fingerprint, never reads or writes the store (every step of it
\* leaves the store unchanged, with no entry for its target), calls the
\* upstream, and returns the upstream's status and body.
C9_NonCacheableNeverTouchesStore ==
    [][\A w \in Handlers :
        LET h == handlers[w]
            after == handlers'[w]
        IN  (after # h /\ h.pc # "IDLE" /\ BeginsWithAllowedDomain(h.path)
                /\ ~MatchesCacheablePrefix(h.path)) =>
                /\ store' = store
                /\ after.request_hash = None
                /\ after.cache_reads = 0
                /\ after.cache_writes = 0
                /\ select_data(store', sha256_hexdigest(after.full_path)) = {}
                /\ after.pc \in Terminal =>
                        /\ after.pc # "REJECTED"
                        /\ after.upstream_calls = 1
                        /\ UpstreamReturned(after) =>
                                after.response =
                                    MissResponse(after.status_code, after.data)]_vars

C9_Witness ==
    \E w \in Handlers :
        LET h == handlers[w]
        IN  /\ h.pc = "NOT_STORED"
            /\ h.path = LATEST
            /\ h.upstream_calls = 1
            /\ h.cache_reads = 0
            /\ h.response = MissResponse(200, RATES)
            /\ store # {}
            /\ select_data(store, sha256_hexdigest(h.full_path)) = {}

Last(seq) == seq[Len(seq)]

\* C10: get of a key never written returns None; after cache_data(k, v), get
\* returns exactly v (the empty string included); after a second cache_data
\* for k, get returns the second text, the store holds exactly one entry for
\* k, and the entries of other keys are unchanged: the table is at all times
\* the map from each written key to the text last written for it.
C10_StoreRoundTrip ==
    /\ op.name = "get_cached_data" =>
            op.result = (IF written[op.key] = <<>> THEN None
                         ELSE Str(Last(written[op.key])))
    /\ op.name \in {"get_cached_data", "cache_data", "init_db"} =>
            store = {Row(k, Last(written[k])) : k \in {j \in StoreKeys : written[j] # <<>>}}

C10_Witness ==
    /\ op.name = "get_cached_data"
    /\ written[op.key] = <<RATES, "">>
    /\ op.result = Str("")
    /\ Cardinality(store) = 2

\* get_cached_data raised for this request
ReadRaised(h) == h.cache_reads = 1 /\ h.cached_data = Unbound

\* cache_data raised for this request
WriteFailed(h) == h.pc = "NOT_STORED" /\ h.cache_writes = 1

\* C11: a request whose store read raised goes on as on a miss (no hit, the
\* upstream is called); after a read or write that raised, the client gets
\* the upstream's status and body with X-Cache: MISS, as with no cache at all.
C11_CacheFaultsAbsorbed ==
    \A w \in Handlers :
        LET h == handlers[w]
        IN  /\ ReadRaised(h) =>
                /\ h.pc # "CACHE_HIT"
                /\ h.pc \in Terminal => h.upstream_calls = 1
            /\ (h.pc \in Terminal /\ UpstreamReturned(h)
                    /\ (ReadRaised(h) \/ WriteFailed(h))) =>
                    h.response = MissResponse(h.status_code, h.data)

\* C12: when urlopen raises HTTPError with status s the client receives s
\* with a JSON {"error": message} body; when it raises anything else the
\* client receives 500 with a JSON {"error": message} body; either way the
\* step leaves the store unchanged and the request never writes to it.
C12_UpstreamFailures ==
    [][\A w \in Handlers :
        LET h == handlers[w]
            after == handlers'[w]
        IN  (h.pc = "CACHE_MISS" /\ after.pc = "UPSTREAM_ERROR") =>
                /\ store' = store
                /\ after.cache_writes = 0
                /\ after.upstream_calls = 1
                /\ after.exc \in {"HTTPError", "URLError"}
                /\ after.exc = "HTTPError" =>
                        after.response =
                            [status |-> after.exc_code,
                             body |-> "{\"error\":\"<str(HTTPError)>\"}",
                             xcache |-> ""]
                /\ after.exc = "URLError" =>
                        after.response =
                            [status |-> 500,
                             body |-> "{\"error\":\"<str(URLError)>\"}",
                             xcache |-> ""]]_vars

C12_Witness ==
    \E w \in Handlers :
        LET h == handlers[w]
        IN  /\ h.pc = "UPSTREAM_ERROR"
            /\ h.exc = "HTTPError"
            /\ h.exc_code = 404
            /\ h.response.status = 404
            /\ h.request_hash # None
            /\ store # {}
            /\ select_data(store, h.request_hash) = {}

\* the host of "https://host/path?query"
UrlHost(url) == TakeUntil(SubSeq(url, 3, Len(url)), {"/", "?"})

\* C13: every upstream call targets a host that is one of the allow-listed
\* domains, openexchangerates.org or api.twelvedata.com.
C13_OnlyAllowListedHosts ==
    \A w \in Handlers :
        LET h == handlers[w]
        IN  h.upstream_calls > 0 =>
                UrlHost(h.upstream_url) \in
                    { <<"openexchangerates.org">>, <<"api.twelvedata.com">> }

\* the query string of an upstream URL
UrlQuery(url) == DropThrough(url, {"?"})

\* C14: the query string of the upstream URL carries every query parameter
\* occurrence of the inbound request, repeated names included, in the same
\* order, and nothing else.
C14_QueryPassedThrough ==
    (fn.phase = "built" /\ fn.allowed) =>
        request_args(UrlQuery(fn.upstream_url)) = fn.args

\* C15: the fingerprint is taken over the reconstructed outbound target and
\* nothing else; a target with no query string and the same target with an
\* empty one ("path" and "path?") give the same upstream URL and the same
\* fingerprint, those of the path with no separator.
C15_CanonicalTarget ==
    (fn.phase = "built" /\ fn.allowed) =>
        /\ fn.request_hash # None => fn.request_hash.of = fn.full_path
        /\ fn.upstream_url = <<"https:/">> \o fn.full_path
        /\ fn.target \in {fn.path, fn.path \o <<"?">>} =>
                /\ fn.full_path = <<"/">> \o fn.path
                /\ MatchesCacheablePrefix(fn.path) =>
                        fn.request_hash = sha256_hexdigest(<<"/">> \o fn.path)

C15_Witness ==
    /\ fn.phase = "built"
    /\ fn.target = EOD \o <<"?">>
    /\ fn.upstream_url = <<"https:/", "/">> \o EOD
    /\ fn.request_hash = sha256_hexdigest(<<"/">> \o EOD)

\* C16: however requests with the same fingerprint interleave, the store
\* never holds more than one entry per fingerprint; it changes only by the
\* write of a whole body that the upstream returned with 200 and the policy
\* admitted for that fingerprint, after which the entry is exactly that body
\* (so the entry left at the end is the last write) and no other entry has
\* changed; and a body served as a HIT is the whole entry of the fingerprint.
C16_ConcurrentIdentical ==
    [][/\ \A row \in store' : select_data(store', row.requestHash) = {row}
       /\ store' # store =>
            \E w \in Handlers :
                /\ handlers[w].pc = "UPSTREAM_CALLED"
                /\ handlers'[w].pc = "STORED"
                /\ {r \in store' : r.requestHash # handlers[w].request_hash}
                    = {r \in store : r.requestHash # handlers[w].request_hash}
       /\ \A w \in Handlers :
            LET h == handlers[w]
                after == handlers'[w]
            IN  /\ (after.pc = "STORED" /\ h.pc # "STORED") =>
                    /\ h.status_code = 200
                    /\ should_cache_response(h.path, h.status_code, h.data) = "True"
                    /\ select_data(store', h.request_hash)
                        = {Row(h.request_hash, h.data)}
                /\ (after.pc = "CACHE_HIT" /\ h.pc # "CACHE_HIT") =>
                    select_data(store, h.request_hash)
                        = {Row(h.request_hash, after.response.body)}]_vars

\* two requests with one fingerprint have both missed and both written
C16_Witness ==
    \E v, w \in Handlers :
        /\ v # w
        /\ handlers[v].pc = "STORED"
        /\ handlers[w].pc = "STORED"
        /\ handlers[v].request_hash = handlers[w].request_hash
        /\ handlers[v].upstream_calls = 1
        /\ handlers[w].upstream_calls = 1
        /\ handlers[v].data # handlers[w].data
        /\ store = {Row(handlers[w].request_hash, handlers[w].data)}

\* C17: in one request the domain check comes before any cache read or
\* upstream call; a cacheable request reads the cache before the upstream
\* call; the upstream is called at most once, and not when the request was
\* rejected or hit; the store is written at most once, only after the
\* upstream returned and the gate admitted; and the one response is produced
\* in REJECTED, CACHE_HIT, STORED, NOT_STORED, or the upstream-error state,
\* which is where a failed upstream call ends.
C17_StepOrder ==
    \A w \in Handlers :
        LET h == handlers[w]
        IN  /\ h.pc \in {"IDLE", "RECEIVED"} =>
                h.cache_reads = 0 /\ h.upstream_calls = 0 /\ h.cache_writes = 0
            /\ h.cache_reads <= 1 /\ h.upstream_calls <= 1 /\ h.cache_writes <= 1
            /\ h.pc \in {"REJECTED", "CACHE_HIT", "DOMAIN_CHECKED"} =>
                h.upstream_calls = 0
            /\ (h.upstream_calls = 1 /\ MatchesCacheablePrefix(h.path)) =>
                h.cache_reads = 1
            /\ h.cache_writes = 1 =>
                /\ UpstreamReturned(h)
                /\ should_cache_response(h.path, h.status_code, h.data) = "True"
                /\ h.pc \in {"STORED", "NOT_STORED"}
            /\ h.response # NoResponse <=> h.pc \in Terminal
            /\ h.pc = "UPSTREAM_ERROR" => ~UpstreamReturned(h)
            /\ UpstreamReturned(h) =>
                h.pc \in {"UPSTREAM_CALLED", "STORED", "NOT_STORED"}

\* the path and the query parameters a store entry was written for
RowPath(row) == TakeUntil(Tail(row.requestHash.of), {"?"})

RowArgs(row) == request_args(UrlQuery(row.requestHash.of))

\* the same parameter occurrences, in any order
SameParams(a, b) ==
    /\ Len(a) = Len(b)
    /\ {a[i] : i \in 1..Len(a)} = {b[i] : i \in 1..Len(b)}

RECURSIVE EncodeInOrder(_)
\* name=value fields in the order given, joined by "&"
EncodeInOrder(args) ==
    IF args = <<>> THEN <<>>
    ELSE <<Head(args)[1], "=", Head(args)[2]>>
         \o (IF Tail(args) = <<>> THEN <<>> ELSE <<"&">> \o EncodeInOrder(Tail(args)))

OrderedTarget(path, args) ==
    <<"/">> \o path \o (IF args = <<>> THEN <<>> ELSE <<"?">> \o EncodeInOrder(args))

\* C19 as stated: in a sequential run, a request to a cacheable path whose
\* parameters are those of a stored entry in any order has that entry's
\* fingerprint, and is served from it (an entry with a non-empty body).
C19_OrderIndependent_AsStated ==
    [][\A w \in Handlers :
        LET h == handlers[w]
            after == handlers'[w]
        IN  (h.pc = "DOMAIN_CHECKED" /\ after # h) =>
                \A row \in store :
                    (RowPath(row) = h.path /\ SameParams(RowArgs(row), h.args)) =>
                        /\ h.request_hash = row.requestHash
                        /\ row.data # "" => after.response = HitResponse(row.data)]_vars

\* C19 (amended): the fingerprint is taken over the query re-encoded in
\* arrival order, so for the same path and the same (distinct) parameters a
\* request has the fingerprint of a stored entry exactly when the order is
\* the same; a hit is served only from an entry stored for the same order.
C19_OrderDependent ==
    [][\A w \in Handlers :
        LET h == handlers[w]
            after == handlers'[w]
        IN  (h.pc = "DOMAIN_CHECKED" /\ after # h) =>
                /\ h.request_hash = sha256_hexdigest(OrderedTarget(h.path, h.args))
                /\ \A row \in store :
                    (RowPath(row) = h.path /\ SameParams(RowArgs(row), h.args)) =>
                        (h.request_hash = row.requestHash <=> RowArgs(row) = h.args)
                /\ after.pc = "CACHE_HIT" =>
                    \E row \in store :
                        /\ RowPath(row) = h.path
                        /\ RowArgs(row) = h.args
                        /\ after.response = HitResponse(row.data)]_vars

\* a request misses although an entry is stored for its parameters in the
\* other order
C19_Witness ==
    \E w \in Handlers : \E row \in store :
        LET h == handlers[w]
        IN  /\ h.pc = "CACHE_MISS"
            /\ h.cached_data = None
            /\ row.data = RATES
            /\ RowPath(row) = h.path
            /\ SameParams(RowArgs(row), h.args)
            /\ RowArgs(row) # h.args

\* C20: from an empty store, every entry (k, b) has for k the fingerprint of
\* an allowed, cacheable target and for b a body the policy admits for that
\* target; an entry appears or changes only when a request for exactly that
\* target writes the body its one upstream call returned with status 200;
\* a hit returns the entry of the request's own target; and a step that ends
\* in a rejection, a hit or an error leaves the store unchanged.
C20_Provenance ==
    [][/\ \A row \in store' :
            /\ BeginsWithAllowedDomain(RowPath(row))
            /\ MatchesCacheablePrefix(RowPath(row))
            /\ should_cache_response(RowPath(row), 200, row.data) = "True"
       /\ \A row \in store' \ store :
            \E w \in Handlers :
                LET h == handlers[w]
                IN  /\ h.pc = "UPSTREAM_CALLED"
                    /\ handlers'[w].pc = "STORED"
                    /\ h.upstream_calls = 1
                    /\ h.status_code = 200
                    /\ h.data = row.data
                    /\ h.full_path = row.requestHash.of
                    /\ h.path = RowPath(row)
       /\ \A w \in Handlers :
            LET h == handlers[w]
                after == handlers'[w]
            IN  /\ (after # h /\ after.pc \in {"REJECTED", "CACHE_HIT", "UPSTREAM_ERROR"})
                    => store' = store
                /\ (after # h /\ after.pc = "CACHE_HIT") =>
                    Row(sha256_hexdigest(h.full_path), after.response.body) \in store]_vars

C20_Witness ==
    \E w \in Handlers :
        LET h == handlers[w]
        IN  /\ h.pc = "CACHE_HIT"
            /\ Cardinality(store) = 2
            /\ h.path = EOD
            /\ Row(sha256_hexdigest(h.full_path), h.response.body) \in store

\* C18: under fairness, every received request eventually reaches a terminal
\* state and has produced its response, whatever the store and the other
\* requests do.
C18_EveryRequestCompletes ==
    \A w \in Handlers :
        (handlers[w].pc = "RECEIVED") ~>
            (handlers[w].pc \in Terminal /\ handlers[w].response # NoResponse)

\* a request has completed after its lookup raised, while another request is
\* in flight
C18_Witness ==
    \E v, w \in Handlers :
        /\ v # w
        /\ handlers[w].pc \in Terminal
        /\ handlers[w].response # NoResponse
        /\ handlers[w].cache_reads = 1
        /\ handlers[w].cached_data = Unbound
        /\ handlers[v].pc \in {"DOMAIN_CHECKED", "CACHE_MISS", "UPSTREAM_CALLED"}

====
